---- MODULE Spec2Model ----
(***************************************************************************)
(* Credential pool (app/services/key_manager.py, KeyManager) and streaming *)
(* upstream client (app/services/chat/api_client.py, GeminiApiClient).     *)
(*                                                                         *)
(* The pool is used by asyncio tasks sharing one KeyManager, hence one     *)
(* AsyncSession, two asyncio locks and one rotation index.  A task is      *)
(* suspended only at an `await` (a lock that is taken, a store call); the  *)
(* code between two suspensions runs atomically and is one step of the     *)
(* model.  The store is the table api_keys as the shared session sees it.  *)
(* Tasks have no identity of their own (an asyncio.Lock records no owner), *)
(* so the calls in progress are a bag of task records.                     *)
(***************************************************************************)
EXTENDS Naturals, Integers, Sequences, FiniteSets, Bags, TLC

\* ------------------------------------------------------------------ bounds
NKeys == 2          \* number of configured credentials (settings.API_KEYS)
NTasks == 2         \* number of concurrent asyncio tasks using the pool
MaxCount == 4       \* no failure report is started on a key whose count reached this
MaxLines == 2       \* lines an upstream response holds at most
NSeeders == 2       \* number of processes that run initialize_keys
NCallers == 3       \* number of concurrent get_key_manager_instance calls

\* ------------------------------------------------------- program constants
MAX_FAILURES == 3   \* settings.MAX_FAILURES
max_retries == 3    \* GeminiApiClient.max_retries
retry_delay == 1    \* GeminiApiClient.retry_delay (seconds)

\* settings.API_KEYS: the configured list of credentials.
API_KEYS == [i \in 1..NKeys |-> i]

\* settings.PAID_KEY, when one is configured: a key of its own.
PAID_KEY == NKeys + 1

Keys == 1..NKeys \cup {PAID_KEY}
NoKey == 0

VARIABLES
    rows,               \* table api_keys: the keys that have a record, in id order
    status,             \* APIKey.status of each key
    failure_count,      \* APIKey.failure_count of each key
    reports,            \* history: failure reports applied to each key since the last reset
    current_key_index,  \* KeyManager._current_key_index
    key_cycle_lock,     \* KeyManager.key_cycle_lock is locked
    failure_count_lock, \* KeyManager.failure_count_lock is locked
    tasks,              \* the calls in progress: a bag of task records
    hist,               \* history: the call of a sequential run and how it ended
    stream,             \* one stream_generate_content call
    generate,           \* one generate_content call
    seeders,            \* the initialize_keys call of each process
    singleton           \* _singleton_instance, _singleton_lock and the callers

poolVars == <<rows, status, failure_count, reports, current_key_index,
              key_cycle_lock, failure_count_lock, tasks, hist>>
clientVars == <<stream, generate>>
vars == <<rows, status, failure_count, reports, current_key_index,
          key_cycle_lock, failure_count_lock, tasks, hist, stream, generate,
          seeders, singleton>>

\* ------------------------------------------------------------ store reads
SeqToSet(s) == {s[i] : i \in 1..Len(s)}

\* The records with status set.
EnabledKeys == {k \in SeqToSet(rows) : status[k]}

\* The Python expression `APIKey.status is True` (key_manager.py:41): an
\* identity test of the mapped column attribute against the object True.  It
\* is evaluated before the query is built and is the constant False.
StatusIsTrue == FALSE

\* Mutant: the query has no filter on status.
all_keys == rows

\* select(APIKey).where(<bool>): a Python bool in where() is the SQL constant
\* true or false, so the query returns every row or none.
valid_keys == IF StatusIsTrue THEN rows ELSE <<>>

\* Mutant: any key that has a record is valid.
KeyHasRecord(k) == k \in SeqToSet(rows)

\* is_key_valid's return expression:
\* key_record and key_record.status and key_record.failure_count < MAX_FAILURES
KeyIsValid(k) ==
    /\ k \in SeqToSet(rows)
    /\ status[k]
    /\ failure_count[k] < MAX_FAILURES

ValidKeys == {k \in Keys : KeyIsValid(k)}

\* --------------------------------------------------------- initialize_keys
\* Column defaults of a new APIKey(key=key) (api_key.py:10-11).
StatusDefault == TRUE
FailureCountDefault == 0

\* Lines 26-28: a key with no record in table t is added to the session.
\* The session does not autoflush, so a key added earlier in the same call
\* has no record yet when it is looked up again.
AddIfMissing(t, pending, key) ==
    IF key \in SeqToSet(t) THEN pending ELSE Append(pending, key)

RECURSIVE Pending(_, _, _)
Pending(t, pending, api_keys) ==
    IF api_keys = <<>> THEN pending
    ELSE Pending(t, AddIfMissing(t, pending, Head(api_keys)), Tail(api_keys))

\* The commit of line 30 inserts the added keys; APIKey.key is unique, so
\* the insert of a key that has a record by then, or that was added twice,
\* raises the integrity error "Duplicate entry".
Conflict(t, pending) ==
    \/ \E i, j \in 1..Len(pending) : i < j /\ pending[i] = pending[j]
    \/ SeqToSet(pending) \cap SeqToSet(t) # {}

Commit(t, pending) == IF Conflict(t, pending) THEN t ELSE t \o pending

\* One uninterrupted initialize_keys(api_keys) on table contents t: on a
\* conflict the transaction is rolled back (line 33) and the error swallowed
\* (line 35).
InitializeKeys(t, api_keys) == Commit(t, Pending(t, <<>>, api_keys))

\* A process running initialize_keys on a session of its own.  pc: "idle"
\* before the call, "select" awaiting the query of line 23 for api_keys[i],
\* "commit" awaiting line 30, "rollback" awaiting line 33, "returned",
\* "raised"; pending: the keys added to the session; error: what was caught.
NoSeeder ==
    [pc |-> "idle", api_keys |-> <<>>, i |-> 1, pending |-> <<>>,
     error |-> "none"]

\* The lists initialize_keys is called with: any list of keys, a key may
\* be repeated (nothing removes repetitions from api_keys).
InputLists == UNION {[1..n -> SeqToSet(API_KEYS)] : n \in 0..NKeys}

SeederIdle(p) == seeders[p].pc \in {"idle", "returned", "raised"}

\* The processes are alike: they are numbered in the order of their calls.
initialize_keys_call(p, api_keys) ==
    /\ seeders[p].pc = "idle"
    /\ \A q \in 1..(p - 1) : seeders[q].pc # "idle"
    /\ hist.on => \A q \in 1..NSeeders : SeederIdle(q)
    /\ seeders' = [seeders EXCEPT ![p] =
          [NoSeeder EXCEPT !.api_keys = api_keys,
                           !.pc = IF api_keys = <<>> THEN "commit"
                                  ELSE "select"]]
    /\ UNCHANGED <<poolVars, singleton, clientVars>>

\* The query of line 23 for the current key completes (ok) or raises a
\* store error, which the except clause of line 31 catches.
initialize_keys_select(p, ok) ==
    /\ seeders[p].pc = "select"
    /\ LET s == seeders[p] IN
       seeders' = [seeders EXCEPT ![p] =
          IF ~ok THEN [s EXCEPT !.pc = "rollback", !.error = "StoreError"]
          ELSE [s EXCEPT
                  !.pending = AddIfMissing(rows, s.pending, s.api_keys[s.i]),
                  !.i = s.i + 1,
                  !.pc = IF s.i = Len(s.api_keys) THEN "commit"
                         ELSE "select"]]
    /\ UNCHANGED <<poolVars, singleton, clientVars>>

\* The commit of line 30: the added keys are inserted with the column
\* defaults, or the insert conflicts and raises, or the store raises another
\* error (~ok); the except clause of line 31 catches either.
initialize_keys_commit(p, ok) ==
    /\ seeders[p].pc = "commit"
    /\ LET s == seeders[p] IN
       IF ~ok \/ Conflict(rows, s.pending)
       THEN /\ seeders' = [seeders EXCEPT ![p] =
                  [s EXCEPT !.pc = "rollback",
                            !.error = IF ok THEN "Duplicate entry"
                                      ELSE "StoreError"]]
            /\ UNCHANGED <<rows, status, failure_count, reports>>
       ELSE /\ seeders' = [seeders EXCEPT ![p] =
                  [s EXCEPT !.pc = "returned", !.pending = <<>>]]
            /\ rows' = Commit(rows, s.pending)
            /\ status' = [k \in Keys |->
                  IF k \in SeqToSet(s.pending) THEN StatusDefault
                  ELSE status[k]]
            /\ failure_count' = [k \in Keys |->
                  IF k \in SeqToSet(s.pending) THEN FailureCountDefault
                  ELSE failure_count[k]]
            /\ reports' = [k \in Keys |->
                  IF k \in SeqToSet(s.pending) THEN 0 ELSE reports[k]]
    /\ UNCHANGED <<current_key_index, key_cycle_lock, failure_count_lock,
                   tasks, hist, singleton, clientVars>>

\* The rollback of line 33 discards what was added; the error is swallowed
\* when its message contains "Duplicate entry" and re-raised otherwise.  A
\* rollback that raises (~ok) ends the call with its error.
initialize_keys_rollback(p, ok) ==
    /\ seeders[p].pc = "rollback"
    /\ seeders' = [seeders EXCEPT ![p] =
          IF ~ok THEN [@ EXCEPT !.pc = "raised", !.error = "StoreError"]
          ELSE [@ EXCEPT !.pending = <<>>,
                         !.pc = IF seeders[p].error = "Duplicate entry"
                                THEN "returned" ELSE "raised"]]
    /\ UNCHANGED <<poolVars, singleton, clientVars>>

Seeder_initialize_keys_call ==
    \E p \in 1..NSeeders, api_keys \in InputLists :
        initialize_keys_call(p, api_keys)
Seeder_initialize_keys_select ==
    \E p \in 1..NSeeders, ok \in BOOLEAN : initialize_keys_select(p, ok)
Seeder_initialize_keys_commit ==
    \E p \in 1..NSeeders, ok \in BOOLEAN : initialize_keys_commit(p, ok)
Seeder_initialize_keys_rollback ==
    \E p \in 1..NSeeders, ok \in BOOLEAN : initialize_keys_rollback(p, ok)

NextInit ==
    \/ Seeder_initialize_keys_call
    \/ Seeder_initialize_keys_select
    \/ Seeder_initialize_keys_commit
    \/ Seeder_initialize_keys_rollback

\* ------------------------------------------------------------------ tasks
\* pc: where the task is suspended; ret: the line the call in progress
\* returns to (0: the caller of the pool); key: the argument of the call;
\* tried_keys, current_key: the locals of get_next_working_key; calls: the
\* get_next_key calls the task has made.
Task(pc, ret, key) ==
    [pc |-> pc, ret |-> ret, key |-> key,
     tried_keys |-> {}, current_key |-> NoKey, calls |-> 0]

\* What a step leaves of the task: it is suspended again at next, or its call
\* ended: it returned val ("value"), True, False or None ("true", "false",
\* "None"), nothing ("ok"), or raised ("NoValidKeys", "StoreError").
Running(tr) == [out |-> "running", val |-> NoKey, next |-> tr]
Ended(out, val) == [out |-> out, val |-> val, next |-> Task("done", 0, NoKey)]

After(tr, r) ==
    IF r.out = "running"
    THEN (tasks (-) SetToBag({tr})) (+) SetToBag({r.next})
    ELSE tasks (-) SetToBag({tr})

\* get_keys_by_status' result (lines 112-118): two dicts from key to failure
\* count, one of the records with status set and one of the others.
KeysByStatus ==
    [valid_keys |->
        [k \in {x \in SeqToSet(rows) : status[x]} |-> failure_count[k]],
     invalid_keys |->
        [k \in {x \in SeqToSet(rows) : ~status[x]} |-> failure_count[k]]]

NoKeysByStatus == [valid_keys |-> <<>>, invalid_keys |-> <<>>]

\* History, kept in sequential runs only (hist.on): the method called, its
\* argument, the enabled and the valid keys and the failure count of the
\* argument when it was called, the resets it performed, the store errors
\* raised inside the try block of get_next_working_key (lines 83-96), how it
\* ended, the dicts it returned, and the same of the call before it (prev).
NoCall ==
    [op |-> "none", key |-> NoKey, count0 |-> 0, valid0 |-> {}, out |-> "none"]

NoHist(on) ==
    [on |-> on, op |-> "none", key |-> NoKey, enabled0 |-> {}, valid0 |-> {},
     count0 |-> 0, resets |-> 0, scan_errors |-> 0, query_raised |-> FALSE,
     out |-> "none", val |-> NoKey, keys |-> NoKeysByStatus, prev |-> NoCall]

HistCall(op, key) ==
    IF hist.on
    THEN [on |-> TRUE, op |-> op, key |-> key, enabled0 |-> EnabledKeys,
          valid0 |-> ValidKeys,
          count0 |-> IF key \in SeqToSet(rows) THEN failure_count[key] ELSE 0,
          resets |-> 0, scan_errors |-> 0, query_raised |-> hist.query_raised,
          out |-> "running", val |-> NoKey, keys |-> NoKeysByStatus,
          prev |-> [op |-> hist.op, key |-> hist.key, count0 |-> hist.count0,
                    valid0 |-> hist.valid0, out |-> hist.out]]
    ELSE hist

HistAfter(r, nresets) ==
    IF hist.on
    THEN [hist EXCEPT !.out = r.out, !.val = r.val, !.resets = @ + nresets]
    ELSE hist

\* Kept in every run: whether the last query of get_next_key raised.
HistQuery(h, ok) == [h EXCEPT !.query_raised = ~ok]

\* A store read of task tr completed (ok) or raised.
HistRead(h, tr, ok) ==
    IF hist.on /\ ~ok /\ tr.ret \in {84, 89, 92}
    THEN [h EXCEPT !.scan_errors = @ + 1]
    ELSE h

\* The module's singleton.  instance: _singleton_instance, None (0) or the
\* KeyManager constructed (numbered in the order of construction);
\* constructed: KeyManager objects constructed; lock: _singleton_lock is
\* held; seeded: the initialize_keys run of the instance completed;
\* callers: each call's position ("idle", "lock" waiting for the lock,
\* "initialize" awaiting initialize_keys inside the lock, "returned",
\* "raised") and the instance it was handed.
NoInstance == 0

NoSingleton ==
    [instance |-> NoInstance, constructed |-> 0, lock |-> FALSE,
     seeded |-> FALSE,
     callers |-> [c \in 1..NCallers |-> [pc |-> "idle", got |-> NoInstance]]]


InitPool ==
    /\ rows = InitializeKeys(<<>>, API_KEYS)
    /\ status = [k \in Keys |-> TRUE]
    /\ failure_count = [k \in Keys |-> 0]
    /\ reports = [k \in Keys |-> 0]
    /\ current_key_index = 0
    /\ key_cycle_lock = FALSE
    /\ failure_count_lock = FALSE
    /\ tasks = EmptyBag
    /\ seeders = [p \in 1..NSeeders |-> NoSeeder]
    /\ singleton = NoSingleton

\* ------------------------------------------------------------ asyncio.Lock
\* Mutant: a lock that is handed out while it is held.
UnlockedAlways(lock) == TRUE

\* `async with lock` goes on when the lock is not held and waits otherwise.
Unlocked(lock) == ~lock

\* Mutant: the lock stays held when the block is left.
ReleaseNever(lock) == lock

\* Leaving the `async with` block, by its end, a return or an exception,
\* releases the lock.
Release(lock) == FALSE

\* -------------------------------------------------------------- get_next_key
\* Lines 45-50 on the rows the query returned: the index after the call and
\* what the call yields ("NoValidKeys": the exception of line 47).
NextIndex(keys) ==
    IF keys = <<>> THEN current_key_index
    ELSE (current_key_index + 1) % Len(keys)

GetNextKey(keys) ==
    IF keys = <<>> THEN Ended("NoValidKeys", NoKey)
    ELSE Ended("value", keys[NextIndex(keys) + 1])

\* Mutant: the except clause falls back to the first configured key, with no
\* reset.
ExceptHandlerFirstKey(tr) == Ended("value", API_KEYS[1])

\* get_next_working_key's except clause (lines 98-101): whatever exception the
\* try block raised, reset_failure_counts is awaited next.
ExceptHandler(tr) == Running([tr EXCEPT !.pc = "reset_execute", !.ret = 101])

\* Where get_next_key's outcome g goes: to the caller of the pool (ret 0), to
\* the first acquisition of get_next_working_key (line 84), to the one in its
\* loop (line 92) or to the one of its except clause (line 104).  In the loop
\* the key is assigned to current_key (line 92) before it is looked up in
\* tried_keys (line 93), so the raise of line 96 leaves it assigned.
AfterGetNextKey(tr, g) ==
    IF tr.ret = 84 THEN
        IF g.out = "value"
        THEN Running([tr EXCEPT !.current_key = g.val, !.tried_keys = {g.val},
                                !.pc = "ikv_select", !.ret = 89])
        ELSE ExceptHandler(tr)
    ELSE IF tr.ret = 92 THEN
        IF g.out # "value" THEN ExceptHandler(tr)
        ELSE IF g.val \in tr.tried_keys
        THEN ExceptHandler([tr EXCEPT !.current_key = g.val])
        ELSE Running([tr EXCEPT !.current_key = g.val,
                                !.tried_keys = @ \cup {g.val},
                                !.pc = "ikv_select", !.ret = 89])
    ELSE g

\* async with self.key_cycle_lock (line 40): the lock is taken when free.
get_next_key_lock(tr) ==
    /\ tr.pc = "gnk_lock"
    /\ Unlocked(key_cycle_lock)
    /\ key_cycle_lock' = TRUE
    /\ tasks' = After(tr, Running([tr EXCEPT !.pc = "gnk_select",
                                              !.calls = @ + 1]))
    /\ UNCHANGED <<rows, status, failure_count, reports, current_key_index,
                   failure_count_lock, hist, seeders, singleton,
                   clientVars>>

\* The query of line 42 completes (ok) or raises; lines 43-50 follow and the
\* lock is released on the way out.
get_next_key_select(tr, ok) ==
    /\ tr.pc = "gnk_select"
    /\ key_cycle_lock
    /\ LET g == IF ok THEN GetNextKey(valid_keys) ELSE Ended("StoreError", NoKey)
           r == AfterGetNextKey(tr, g)
       IN /\ current_key_index' =
                IF ok THEN NextIndex(valid_keys) ELSE current_key_index
          /\ tasks' = After(tr, r)
          /\ hist' = HistQuery(HistRead(HistAfter(r, 0), tr, ok), ok)
    /\ key_cycle_lock' = Release(key_cycle_lock)
    /\ UNCHANGED <<rows, status, failure_count, reports,
                   failure_count_lock, seeders, singleton,
                   clientVars>>

\* -------------------------------------------------------------- is_key_valid
\* The query of line 55 completes or raises.  Called from outside the pool it
\* yields the value of the `and` chain of line 57: None when there is no
\* record, else a truth value; in get_next_working_key (line 89) a valid
\* current_key is returned (line 90), an invalid one leads to line 92.
IsKeyValid(tr, ok) ==
    IF tr.ret = 89 THEN
        IF ~ok THEN ExceptHandler(tr)
        ELSE IF KeyIsValid(tr.current_key) THEN Ended("value", tr.current_key)
        ELSE Running([tr EXCEPT !.pc = "gnk_lock", !.ret = 92])
    ELSE IF ~ok THEN Ended("StoreError", NoKey)
    ELSE IF tr.key \notin SeqToSet(rows) THEN Ended("None", NoKey)
    ELSE IF KeyIsValid(tr.key) THEN Ended("true", NoKey)
    ELSE Ended("false", NoKey)

is_key_valid_select(tr, ok) ==
    /\ tr.pc = "ikv_select"
    /\ tasks' = After(tr, IsKeyValid(tr, ok))
    /\ hist' = HistRead(HistAfter(IsKeyValid(tr, ok), 0), tr, ok)
    /\ UNCHANGED <<rows, status, failure_count, reports, current_key_index,
                   key_cycle_lock, failure_count_lock, seeders, singleton,
                   clientVars>>

\* -------------------------------------------------------- get_keys_by_status
\* The query of line 109 completes or raises; lines 110-118 build the dicts.
GetKeysByStatus(ok) ==
    IF ok THEN Ended("dicts", NoKey) ELSE Ended("StoreError", NoKey)

get_keys_by_status_select(tr, ok) ==
    /\ tr.pc = "gkbs_select"
    /\ tasks' = After(tr, GetKeysByStatus(ok))
    /\ hist' = IF hist.on /\ ok
               THEN [HistAfter(GetKeysByStatus(ok), 0) EXCEPT
                        !.keys = KeysByStatus]
               ELSE HistAfter(GetKeysByStatus(ok), 0)
    /\ UNCHANGED <<rows, status, failure_count, reports, current_key_index,
                   key_cycle_lock, failure_count_lock, seeders, singleton,
                   clientVars>>

\* -------------------------------------------------------------- get_paid_key
\* The branch of a configured PAID_KEY (lines 135-146).  The query of line
\* 136 completes or raises; a key that has a record is returned, one that
\* has none is added to the session and the commit of line 143 is awaited.
GetPaidKey(tr, ok) ==
    IF ~ok THEN Ended("StoreError", NoKey)
    ELSE IF tr.key \in SeqToSet(rows) THEN Ended("value", tr.key)
    ELSE Running([tr EXCEPT !.pc = "gpk_commit"])

get_paid_key_select(tr, ok) ==
    /\ tr.pc = "gpk_select"
    /\ tasks' = After(tr, GetPaidKey(tr, ok))
    /\ hist' = HistAfter(GetPaidKey(tr, ok), 0)
    /\ UNCHANGED <<rows, status, failure_count, reports, current_key_index,
                   key_cycle_lock, failure_count_lock, seeders, singleton,
                   clientVars>>

\* The commit of line 143 inserts the record with the column defaults (ok),
\* or raises: the key got a record in the meantime, or the session is in use
\* by another commit.  No lock is held.
PaidKeyCommit(tr, ok) ==
    IF ok /\ ~Conflict(rows, <<tr.key>>) THEN Ended("value", tr.key)
    ELSE Ended("StoreError", NoKey)

get_paid_key_commit(tr, ok) ==
    /\ tr.pc = "gpk_commit"
    /\ IF PaidKeyCommit(tr, ok).out = "value"
       THEN /\ rows' = Commit(rows, <<tr.key>>)
            /\ status' = [status EXCEPT ![tr.key] = StatusDefault]
            /\ failure_count' =
                  [failure_count EXCEPT ![tr.key] = FailureCountDefault]
            /\ reports' = [reports EXCEPT ![tr.key] = 0]
       ELSE UNCHANGED <<rows, status, failure_count, reports>>
    /\ tasks' = After(tr, PaidKeyCommit(tr, ok))
    /\ hist' = HistAfter(PaidKeyCommit(tr, ok), 0)
    /\ UNCHANGED <<current_key_index, key_cycle_lock, failure_count_lock,
                   seeders, singleton,
                   clientVars>>

\* ------------------------------------------------------ reset_failure_counts
\* Mutant: the UPDATE sets failure_count only.
ResetStatusKept(st) == st

\* update(APIKey).values(failure_count=0, status=True) on one record.
ResetStatus(st) == TRUE
ResetCount(n) == 0

\* The UPDATE of line 124 completes and the commit of line 125 is awaited,
\* or it raises and the error is re-raised (line 129).
ResetExecute(tr, ok) ==
    IF ~ok THEN Ended("StoreError", NoKey)
    ELSE Running([tr EXCEPT !.pc = "reset_commit"])

\* The commit of line 125 completes, or raises and the error is re-raised
\* (line 129).  From get_next_working_key (line 101) the call goes on to
\* line 104.
ResetFailureCounts(tr, ok) ==
    IF ~ok THEN Ended("StoreError", NoKey)
    ELSE IF tr.ret = 101 THEN Running([tr EXCEPT !.pc = "gnk_lock", !.ret = 104])
    ELSE Ended("ok", NoKey)

\* The UPDATE is applied to the records of the session.
reset_failure_counts_execute(tr, ok) ==
    /\ tr.pc = "reset_execute"
    /\ IF ok
       THEN /\ status' = [k \in Keys |->
                  IF k \in SeqToSet(rows) THEN ResetStatus(status[k])
                  ELSE status[k]]
            /\ failure_count' = [k \in Keys |->
                  IF k \in SeqToSet(rows) THEN ResetCount(failure_count[k])
                  ELSE failure_count[k]]
            /\ reports' = [k \in Keys |-> 0]
       ELSE UNCHANGED <<status, failure_count, reports>>
    /\ tasks' = After(tr, ResetExecute(tr, ok))
    /\ hist' = HistAfter(ResetExecute(tr, ok), IF ok THEN 1 ELSE 0)
    /\ UNCHANGED <<rows, current_key_index, key_cycle_lock,
                   failure_count_lock, seeders, singleton,
                   clientVars>>

\* A commit that raises is not rolled back: the session keeps the values the
\* UPDATE wrote.
reset_failure_counts_commit(tr, ok) ==
    /\ tr.pc = "reset_commit"
    /\ tasks' = After(tr, ResetFailureCounts(tr, ok))
    /\ hist' = HistAfter(ResetFailureCounts(tr, ok), 0)
    /\ UNCHANGED <<rows, status, failure_count, reports, current_key_index,
                   key_cycle_lock, failure_count_lock, seeders, singleton,
                   clientVars>>

\* -------------------------------------------------------- handle_api_failure
\* Mutants: the threshold test is > instead of >=; the status is not written.
FailureStatusLate(st, n) == IF n > MAX_FAILURES THEN FALSE ELSE st
FailureStatusKept(st, n) == st

\* Lines 67-69 on one record: the count after the report and the status.
FailureCount(n) == n + 1
FailureStatus(st, n) == IF n >= MAX_FAILURES THEN FALSE ELSE st

\* async with self.failure_count_lock (line 61).
handle_api_failure_lock(tr) ==
    /\ tr.pc = "haf_lock"
    /\ Unlocked(failure_count_lock)
    /\ failure_count_lock' = TRUE
    /\ tasks' = After(tr, Running([tr EXCEPT !.pc = "haf_select"]))
    /\ UNCHANGED <<rows, status, failure_count, reports, current_key_index,
                   key_cycle_lock, hist, seeders, singleton,
                   clientVars>>

\* The query of line 63 completes or raises.  A record found is updated in
\* the session (lines 67-69) and the commit of line 71 is awaited; with no
\* record the lock is released and get_next_working_key is called (line 76).
HandleApiFailure(tr, ok) ==
    IF ~ok THEN Ended("StoreError", NoKey)
    ELSE IF tr.key \in SeqToSet(rows)
    THEN Running([tr EXCEPT !.pc = "haf_commit", !.key = NoKey])
    ELSE Running([tr EXCEPT !.pc = "gnk_lock", !.ret = 84, !.key = NoKey])

handle_api_failure_select(tr, ok) ==
    /\ tr.pc = "haf_select"
    /\ failure_count_lock
    /\ IF ok /\ tr.key \in SeqToSet(rows)
       THEN /\ failure_count' = [failure_count EXCEPT
                  ![tr.key] = FailureCount(failure_count[tr.key])]
            /\ status' = [status EXCEPT
                  ![tr.key] = FailureStatus(status[tr.key],
                                            FailureCount(failure_count[tr.key]))]
            /\ reports' = [reports EXCEPT ![tr.key] = @ + 1]
            /\ UNCHANGED failure_count_lock
       ELSE /\ UNCHANGED <<status, failure_count, reports>>
            /\ failure_count_lock' = Release(failure_count_lock)
    /\ tasks' = After(tr, HandleApiFailure(tr, ok))
    /\ hist' = HistAfter(HandleApiFailure(tr, ok), 0)
    /\ UNCHANGED <<rows, current_key_index, key_cycle_lock, seeders, singleton,
                   clientVars>>

\* The commit of line 71 completes: the lock is released and
\* get_next_working_key is called (line 76).  Or it raises: the exception
\* leaves the `async with` block, which releases the lock, and ends the call;
\* the session keeps the values written by lines 67-69.
HandleApiFailureCommit(tr, ok) ==
    IF ~ok THEN Ended("StoreError", NoKey)
    ELSE Running([tr EXCEPT !.pc = "gnk_lock", !.ret = 84])

handle_api_failure_commit(tr, ok) ==
    /\ tr.pc = "haf_commit"
    /\ failure_count_lock
    /\ failure_count_lock' = Release(failure_count_lock)
    /\ tasks' = After(tr, HandleApiFailureCommit(tr, ok))
    /\ hist' = HistAfter(HandleApiFailureCommit(tr, ok), 0)
    /\ UNCHANGED <<rows, status, failure_count, reports, current_key_index,
                   key_cycle_lock, seeders, singleton,
                   clientVars>>

\* ------------------------------------------------------------------- calls
\* A caller of the pool calls one of its methods: a new task record.  In a
\* sequential run (hist.on) it does so only when no call is in progress.
Call(op, tr) ==
    /\ IF hist.on THEN tasks = EmptyBag ELSE BagCardinality(tasks) < NTasks
    /\ tasks' = tasks (+) SetToBag({tr})
    /\ hist' = HistCall(op, tr.key)
    /\ UNCHANGED <<rows, status, failure_count, reports, current_key_index,
                   key_cycle_lock, failure_count_lock, seeders, singleton,
                   clientVars>>

call_get_next_key == Call("get_next_key", Task("gnk_lock", 0, NoKey))

\* The keys callers pass to the pool: a key of the rotation, or a key that
\* has no record.
Arguments == SeqToSet(API_KEYS) \cup {NoKey}

call_is_key_valid ==
    \E k \in Arguments :
        Call("is_key_valid", Task("ikv_select", 0, k))

\* Reports of key k called and not yet counted.
ReportsInProgress(k) ==
    BagCardinality([tr \in {x \in BagToSet(tasks) :
                               x.pc \in {"haf_lock", "haf_select"} /\ x.key = k}
                    |-> tasks[tr]])

call_handle_api_failure ==
    \E k \in Arguments :
        /\ k \in Keys => failure_count[k] + ReportsInProgress(k) < MaxCount
        /\ Call("handle_api_failure", Task("haf_lock", 0, k))

call_get_next_working_key ==
    Call("get_next_working_key", Task("gnk_lock", 84, NoKey))

call_reset_failure_counts ==
    Call("reset_failure_counts", Task("reset_execute", 0, NoKey))

call_get_keys_by_status ==
    Call("get_keys_by_status", Task("gkbs_select", 0, NoKey))

\* settings.PAID_KEY as line 133 reads it: a key, or the empty default of
\* config.py:16.
PaidKeySettings == {NoKey, PAID_KEY}

\* With a paid key configured the call queries its record (line 136); with
\* none it is get_next_working_key (lines 147-150).
call_get_paid_key ==
    \E paid_key \in PaidKeySettings :
        Call("get_paid_key",
             IF paid_key # NoKey THEN Task("gpk_select", 0, paid_key)
             ELSE Task("gnk_lock", 84, NoKey))

Running_get_next_key_lock ==
    \E tr \in BagToSet(tasks) : get_next_key_lock(tr)
Running_get_next_key_select ==
    \E tr \in BagToSet(tasks), ok \in BOOLEAN : get_next_key_select(tr, ok)
Running_is_key_valid_select ==
    \E tr \in BagToSet(tasks), ok \in BOOLEAN : is_key_valid_select(tr, ok)
Running_reset_failure_counts_execute ==
    \E tr \in BagToSet(tasks), ok \in BOOLEAN :
        reset_failure_counts_execute(tr, ok)
Running_handle_api_failure_lock ==
    \E tr \in BagToSet(tasks) : handle_api_failure_lock(tr)
Running_handle_api_failure_select ==
    \E tr \in BagToSet(tasks), ok \in BOOLEAN :
        handle_api_failure_select(tr, ok)
Running_handle_api_failure_commit ==
    \E tr \in BagToSet(tasks), ok \in BOOLEAN :
        handle_api_failure_commit(tr, ok)
Running_reset_failure_counts_commit ==
    \E tr \in BagToSet(tasks), ok \in BOOLEAN :
        reset_failure_counts_commit(tr, ok)
Running_get_keys_by_status_select ==
    \E tr \in BagToSet(tasks), ok \in BOOLEAN :
        get_keys_by_status_select(tr, ok)
Running_get_paid_key_select ==
    \E tr \in BagToSet(tasks), ok \in BOOLEAN : get_paid_key_select(tr, ok)
Running_get_paid_key_commit ==
    \E tr \in BagToSet(tasks), ok \in BOOLEAN : get_paid_key_commit(tr, ok)

\* Some call in progress takes a step.
NextRunning ==
    \E tr \in BagToSet(tasks), ok \in BOOLEAN :
        \/ get_next_key_lock(tr)
        \/ get_next_key_select(tr, ok)
        \/ is_key_valid_select(tr, ok)
        \/ reset_failure_counts_execute(tr, ok)
        \/ handle_api_failure_lock(tr)
        \/ handle_api_failure_select(tr, ok)
        \/ handle_api_failure_commit(tr, ok)
        \/ reset_failure_counts_commit(tr, ok)
        \/ get_keys_by_status_select(tr, ok)
        \/ get_paid_key_select(tr, ok)
        \/ get_paid_key_commit(tr, ok)

\* ---------------------------------------------------------- generate_content
\* One call of generate_content.  pc: "idle" before the call, "post" while
\* client.post awaits the response (line 49), "returned", "raised";
\* requests: requests sent; status_code, text: the response received;
\* result: what the caller gets.  out: "returned" or "raised"; error: the
\* exception; status_code, text: what the message of the exception of line 52
\* holds; json: the value returned, as its <<name, value>> members.
StatusCodes == {200, 429, 500}
JsonBody == "{\"a\":1}"
Bodies == {JsonBody, "body1", ""}

NoJson == <<>>

NoResult ==
    [out |-> "none", error |-> "none", status_code |-> 0, text |-> "",
     json |-> NoJson]

NoGenerate ==
    [pc |-> "idle", requests |-> 0, status_code |-> 0, text |-> "",
     result |-> NoResult]

\* response.json() (line 53): the body parsed, or json.JSONDecodeError when
\* the body is not a JSON document.
IsJson(text) == text = JsonBody
ResponseJson(text) == IF text = JsonBody THEN << <<"a", 1>> >> ELSE NoJson

\* Lines 50-53 on the response: any status but 200 raises an exception whose
\* message holds the status code and the body; 200 returns the parsed body,
\* or raises when the body does not parse.
GenerateContent(status_code, text) ==
    IF status_code # 200
    THEN [NoResult EXCEPT !.out = "raised", !.error = "Exception",
                          !.status_code = status_code, !.text = text]
    ELSE IF IsJson(text)
    THEN [NoResult EXCEPT !.out = "returned", !.json = ResponseJson(text)]
    ELSE [NoResult EXCEPT !.out = "raised", !.error = "JSONDecodeError"]

\* Line 44 builds httpx.Timeout(self.timeout, read=self.timeout) from a
\* Timeout and a keyword, which httpx asserts against: the call raises
\* AssertionError before a request is sent, unless the interpreter runs with
\* asserts stripped (python -O), where the request of line 49 is sent.
Builds == {"asserts", "asserts stripped"}

generate_call(build) ==
    /\ generate.pc = "idle"
    /\ generate' =
          IF build = "asserts"
          THEN [generate EXCEPT
                  !.pc = "raised",
                  !.result = [NoResult EXCEPT !.out = "raised",
                                              !.error = "AssertionError"]]
          ELSE [generate EXCEPT !.pc = "post", !.requests = @ + 1]
    /\ UNCHANGED <<poolVars, stream, seeders, singleton>>

\* The response arrives.
generate_response(status_code, text) ==
    /\ generate.pc = "post"
    /\ generate' = [generate EXCEPT
          !.status_code = status_code,
          !.text = text,
          !.result = GenerateContent(status_code, text),
          !.pc = GenerateContent(status_code, text).out]
    /\ UNCHANGED <<poolVars, stream, seeders, singleton>>

\* client.post raises (httpx.RequestError): nothing catches it.
generate_request_error ==
    /\ generate.pc = "post"
    /\ generate' = [generate EXCEPT
          !.pc = "raised",
          !.result = [NoResult EXCEPT !.out = "raised",
                                      !.error = "RequestError"]]
    /\ UNCHANGED <<poolVars, stream, seeders, singleton>>

Client_generate_call == \E build \in Builds : generate_call(build)
Client_generate_response ==
    \E status_code \in StatusCodes, text \in Bodies :
        generate_response(status_code, text)

\* --------------------------------------------------- stream_generate_content
\* One call of the generator.  pc: "idle" before the call; "connect" while
\* client.stream(...) of the current attempt awaits the response; "lines"
\* while response.aiter_lines() is iterated; "aread" while the HTTPStatusError
\* clause awaits e.response.aread(); "sleep" in asyncio.sleep; "returned" and
\* "raised" when the generator is exhausted.  attempt: the loop variable;
\* connections: requests sent; sent: lines of the current response yielded;
\* yielded: every line the caller received, by its position in the response;
\* delays: the sleeps; error: what the final exception carries.
NoStream ==
    [pc |-> "idle", attempt |-> 0, connections |-> 0, sent |-> 0,
     yielded |-> <<>>, delays |-> <<>>, error |-> "none"]

InitStreamIdle == stream = NoStream /\ generate = NoGenerate

RECURSIVE Pow2(_)
Pow2(n) == IF n = 0 THEN 1 ELSE 2 * Pow2(n - 1)

\* The body shared by the three except clauses (lines 73-77, 79-83, 85-89):
\* the last attempt raises an exception carrying what was caught, any other
\* attempt sleeps retry_delay * 2 ** attempt and goes round the loop.
IsLastAttempt(attempt) == attempt = max_retries - 1

\* Mutant: the same wait before every reconnection.
RetryDelayConstant(attempt) == retry_delay

RetryDelay(attempt) == retry_delay * Pow2(attempt)

ExceptClause(st, caught) ==
    IF IsLastAttempt(st.attempt)
    THEN [st EXCEPT !.pc = "raised", !.error = caught]
    ELSE [st EXCEPT !.pc = "sleep",
                    !.delays = Append(@, RetryDelay(st.attempt))]

\* The generator is called: the loop starts with attempt 0 (line 61) and the
\* request is sent (lines 63-64).
stream_call ==
    /\ stream.pc = "idle"
    /\ stream' = [stream EXCEPT !.pc = "connect", !.attempt = 0,
                                 !.connections = 1]
    /\ UNCHANGED <<poolVars, generate, seeders, singleton>>

\* The response headers arrive.  raise_for_status (line 65) passes a success
\* status and raises HTTPStatusError otherwise, whose clause (line 70) first
\* awaits e.response.aread().
stream_response ==
    /\ stream.pc = "connect"
    /\ \E success \in BOOLEAN :
          stream' = [stream EXCEPT !.pc = IF success THEN "lines" ELSE "aread"]
    /\ UNCHANGED <<poolVars, generate, seeders, singleton>>

\* e.response.aread() (line 71) returns the body, or raises: the handler runs
\* after both async with blocks have exited and closed the response.  An
\* exception raised inside an except clause is not caught by its siblings.
stream_aread ==
    /\ stream.pc = "aread"
    /\ \E read \in BOOLEAN :
          stream' = IF read THEN ExceptClause(stream, "http_status")
                    ELSE [stream EXCEPT !.pc = "raised", !.error = "aread"]
    /\ UNCHANGED <<poolVars, generate, seeders, singleton>>

\* httpx.RequestError (a connect, read or timeout error), while connecting or
\* while lines are iterated: the whole of lines 63-69 is inside the try.
stream_request_error ==
    /\ stream.pc \in {"connect", "lines"}
    /\ stream' = ExceptClause(stream, "request_error")
    /\ UNCHANGED <<poolVars, generate, seeders, singleton>>

\* Any other exception in lines 63-69.
stream_other_exception ==
    /\ stream.pc \in {"connect", "lines"}
    /\ stream' = ExceptClause(stream, "unexpected")
    /\ UNCHANGED <<poolVars, generate, seeders, singleton>>

\* The next line of the response arrives and is yielded (lines 66-67).
stream_line ==
    /\ stream.pc = "lines"
    /\ stream.sent < MaxLines
    /\ stream' = [stream EXCEPT !.sent = @ + 1,
                                 !.yielded = Append(@, stream.sent + 1)]
    /\ UNCHANGED <<poolVars, generate, seeders, singleton>>

\* The upstream closes the stream: the generator returns (line 69).
stream_end ==
    /\ stream.pc = "lines"
    /\ stream' = [stream EXCEPT !.pc = "returned"]
    /\ UNCHANGED <<poolVars, generate, seeders, singleton>>

\* asyncio.sleep returns: the next iteration of the loop sends a new request.
stream_wake ==
    /\ stream.pc = "sleep"
    /\ stream' = [stream EXCEPT !.pc = "connect", !.attempt = @ + 1,
                                 !.connections = @ + 1, !.sent = 0]
    /\ UNCHANGED <<poolVars, generate, seeders, singleton>>

NextStream ==
    \/ stream_call
    \/ stream_response
    \/ stream_aread
    \/ stream_request_error
    \/ stream_other_exception
    \/ stream_line
    \/ stream_end
    \/ stream_wake

\* The client serving a streaming call and a single-shot call.
NextClient ==
    \/ NextStream
    \/ Client_generate_call
    \/ Client_generate_response
    \/ generate_request_error

\* -------------------------------------------------- get_key_manager_instance
get_key_manager_instance_call(c) ==
    /\ singleton.callers[c].pc = "idle"
    /\ \A d \in 1..(c - 1) : singleton.callers[d].pc # "idle"
    /\ singleton' = [singleton EXCEPT !.callers[c].pc = "lock"]
    /\ UNCHANGED <<poolVars, seeders, clientVars>>

\* The process's own session runs the singleton's initialize_keys.
SingletonSeeder == 1

\* Lines 170-173: the caller's list when it is given and not empty,
\* settings.API_KEYS otherwise.
SeedList(api_keys) == IF api_keys = <<>> THEN API_KEYS ELSE api_keys

\* async with _singleton_lock (line 162).  With an instance present it is
\* returned (line 174) and the lock released at once; with none the
\* KeyManager is constructed and assigned (line 168) and initialize_keys is
\* called and awaited (lines 170-173) with the lock held.  api_keys is the
\* caller's argument, which nothing reads before this point.
get_key_manager_instance_lock(c, api_keys) ==
    /\ singleton.callers[c].pc = "lock"
    /\ Unlocked(singleton.lock)
    /\ IF singleton.instance # NoInstance
       THEN /\ singleton' = [singleton EXCEPT
                  !.callers[c] = [pc |-> "returned",
                                  got |-> singleton.instance]]
            /\ UNCHANGED seeders
       ELSE /\ singleton' = [singleton EXCEPT
                  !.lock = TRUE,
                  !.constructed = @ + 1,
                  !.instance = singleton.constructed + 1,
                  !.callers[c].pc = "initialize"]
            /\ seeders' = [seeders EXCEPT ![SingletonSeeder] =
                  [NoSeeder EXCEPT !.api_keys = SeedList(api_keys),
                                   !.pc = "select"]]
    /\ UNCHANGED <<poolVars, clientVars>>

\* initialize_keys has returned, or has raised an error it does not
\* swallow; the exception leaves the `async with` block, which releases the
\* lock, and reaches the caller.
get_key_manager_instance_initialize(c) ==
    /\ singleton.callers[c].pc = "initialize"
    /\ seeders[SingletonSeeder].pc \in {"returned", "raised"}
    /\ singleton' =
          IF seeders[SingletonSeeder].pc = "returned"
          THEN [singleton EXCEPT
                  !.lock = Release(singleton.lock),
                  !.seeded = TRUE,
                  !.callers[c] = [pc |-> "returned",
                                  got |-> singleton.instance]]
          ELSE [singleton EXCEPT
                  !.lock = Release(singleton.lock),
                  !.callers[c].pc = "raised"]
    /\ UNCHANGED <<poolVars, seeders, clientVars>>

Caller_get_key_manager_instance_call ==
    \E c \in 1..NCallers : get_key_manager_instance_call(c)
Caller_get_key_manager_instance_lock ==
    \E c \in 1..NCallers, api_keys \in InputLists :
        get_key_manager_instance_lock(c, api_keys)
Caller_get_key_manager_instance_initialize ==
    \E c \in 1..NCallers : get_key_manager_instance_initialize(c)

NextSingleton ==
    \/ Caller_get_key_manager_instance_call
    \/ Caller_get_key_manager_instance_lock
    \/ Caller_get_key_manager_instance_initialize
    \/ Seeder_initialize_keys_select
    \/ Seeder_initialize_keys_commit
    \/ Seeder_initialize_keys_rollback

Next ==
    \/ call_get_next_key
    \/ call_is_key_valid
    \/ call_handle_api_failure
    \/ call_get_next_working_key
    \/ call_reset_failure_counts
    \/ call_get_keys_by_status
    \/ call_get_paid_key
    \/ Running_get_next_key_lock
    \/ Running_get_next_key_select
    \/ Running_is_key_valid_select
    \/ Running_reset_failure_counts_execute
    \/ Running_handle_api_failure_lock
    \/ Running_handle_api_failure_select
    \/ Running_handle_api_failure_commit
    \/ Running_reset_failure_counts_commit
    \/ Running_get_keys_by_status_select
    \/ Running_get_paid_key_select
    \/ Running_get_paid_key_commit

\* Concurrent tasks: a method may be called while other calls are suspended.
Init == InitPool /\ hist = NoHist(FALSE) /\ InitStreamIdle
Spec == Init /\ [][Next]_vars

\* One call at a time: a method is called only when no call is in progress.
InitSeq == InitPool /\ hist = NoHist(TRUE) /\ InitStreamIdle
SpecSeq == InitSeq /\ [][Next]_vars

\* A streaming call on its own: the pool is not involved.
SpecStream == Init /\ [][NextStream]_vars
SpecClient == Init /\ [][NextClient]_vars


\* Processes seeding a table left by earlier runs: its records are listed in
\* the order of the keys, and each is enabled with no failure or disabled at
\* the threshold.
InitTable ==
    /\ rows \in {l \in InputLists : \A i, j \in 1..Len(l) : i < j => l[i] < l[j]}
    /\ failure_count \in [Keys -> {0, MAX_FAILURES}]
    /\ \A k \in Keys \ SeqToSet(rows) : failure_count[k] = FailureCountDefault
    /\ status = [k \in Keys |-> failure_count[k] < MAX_FAILURES]
    /\ reports = failure_count
    /\ current_key_index = 0
    /\ key_cycle_lock = FALSE
    /\ failure_count_lock = FALSE
    /\ tasks = EmptyBag
    /\ seeders = [p \in 1..NSeeders |-> NoSeeder]
    /\ singleton = NoSingleton
    /\ InitStreamIdle

\* Concurrent initializers, and one initializer at a time.
InitSeeders == InitTable /\ hist = NoHist(FALSE)
\* Concurrent callers of get_key_manager_instance, on any table contents.
SpecSingleton == InitSeeders /\ [][NextSingleton]_vars

SpecInit == InitSeeders /\ [][NextInit]_vars
InitSeedersSeq == InitTable /\ hist = NoHist(TRUE)
SpecInitSeq == InitSeedersSeq /\ [][NextInit]_vars

\* ================================================================== claims
\* A call of a sequential run has ended, and not with a store error.
Finished(ops) ==
    /\ hist.op \in ops
    /\ hist.out \notin {"none", "running", "StoreError"}

IsEnabled(k) == status[k]
EnabledRows == SelectSeq(rows, IsEnabled)

\* C1: once a line of a streaming call has been yielded, a failure is not
\* retried: no new request is sent, nothing is yielded again, and the call
\* goes on delivering lines, returns, or ends with its terminal error.
C1_NoRetryAfterYield ==
    [][stream.yielded # <<>> =>
         /\ stream'.pc \in {"lines", "returned", "raised"}
         /\ stream'.connections = stream.connections]_vars

\* C2: get_next_key raises "No valid API keys available" exactly when no
\* record was enabled when it was called; otherwise it returns the key of a
\* record that was enabled then.
C2_AcquireNextFailsIffEmpty ==
    Finished({"get_next_key"}) =>
        /\ (hist.out = "NoValidKeys") <=> (hist.enabled0 = {})
        /\ hist.enabled0 # {} =>
              (hist.out = "value" /\ hist.val \in hist.enabled0)

\* C3: round robin: a get_next_key call on K >= 1 enabled records moves the
\* cursor to (cursor + 1) mod K and returns the enabled record at the cursor,
\* so K calls in a row return every enabled key once, in cyclic order.
C3_RoundRobin ==
    [][(/\ hist.op = "get_next_key"
        /\ hist.out = "running"
        /\ hist'.out \notin {"running", "StoreError"}
        /\ EnabledKeys # {})
       => (/\ current_key_index' =
                 (current_key_index + 1) % Cardinality(EnabledKeys)
           /\ hist'.out = "value"
           /\ hist'.val = EnabledRows[current_key_index' + 1])]_vars

C5_CountsEveryReport ==
    \A k \in SeqToSet(rows) :
        /\ failure_count[k] = reports[k]
        /\ status[k] <=> (reports[k] < MAX_FAILURES)

C5_Witness ==
    \E k \in SeqToSet(rows) :
        /\ reports[k] = MAX_FAILURES
        /\ failure_count[k] = MAX_FAILURES
        /\ ~status[k]

\* C6: in every state, whatever calls are in progress, a record whose
\* failure count is MAX_FAILURES or more is disabled.
C6_OverThresholdIsDisabled ==
    \A k \in SeqToSet(rows) : failure_count[k] >= MAX_FAILURES => ~status[k]

C6_Witness ==
    /\ \E k \in SeqToSet(rows) : failure_count[k] > MAX_FAILURES /\ ~status[k]
    /\ \E tr \in BagToSet(tasks) : tr.pc = "reset_execute"
    /\ \E tr \in BagToSet(tasks) : tr.pc = "haf_commit"

C8_ExhaustionRecovery ==
    (Finished({"get_next_working_key"}) /\ hist.valid0 = {}) =>
        /\ hist.resets = 1
        /\ hist.out = "value"
        /\ failure_count[hist.val] = 0
        /\ status[hist.val]

\* C9: reset_failure_counts is total and idempotent: whatever the table
\* holds, a completed reset leaves every record with failure count 0 and
\* enabled and adds or removes none; on a table a reset has just left, it
\* changes nothing.
C9_ResetTotalIdempotent ==
    [][hist'.resets = hist.resets + 1 =>
         /\ rows' = rows
         /\ \A k \in SeqToSet(rows) : failure_count'[k] = 0 /\ status'[k]
         /\ (\A k \in SeqToSet(rows) : failure_count[k] = 0 /\ status[k])
               => (status' = status /\ failure_count' = failure_count)]_vars

C9_Witness ==
    /\ hist.op = "reset_failure_counts"
    /\ hist.out = "ok"
    /\ hist.enabled0 # SeqToSet(rows)
    /\ \A k \in SeqToSet(rows) : failure_count[k] = 0 /\ status[k]

\* C10: a streaming call sends at most max_retries requests, and when it
\* raises before any line was yielded it does so on its last attempt, with
\* an error that carries what that attempt failed with.
C10_RetryPolicy ==
    /\ stream.connections <= max_retries
    /\ (stream.pc = "raised" /\ stream.yielded = <<>>) =>
          /\ IsLastAttempt(stream.attempt)
          /\ stream.error \in {"http_status", "request_error", "unexpected"}

\* C11: backoff of a streaming call: the wait after failed attempt a is
\* retry_delay * 2^a, one wait precedes each reconnection and none follows the
\* last failed attempt; a call whose first two attempts failed before any
\* line and whose third attempt ran to its end has waited retry_delay and
\* 2 * retry_delay and has delivered the lines of the third response, each
\* once and in order.
C11_Backoff ==
    /\ \A i \in 1..Len(stream.delays) :
          stream.delays[i] = retry_delay * Pow2(i - 1)
    /\ Len(stream.delays) =
          IF stream.pc = "sleep" THEN stream.attempt + 1 ELSE stream.attempt
    /\ Len(stream.delays) <= max_retries - 1
    /\ (/\ stream.pc = "returned"
        /\ stream.attempt = 2
        /\ Len(stream.yielded) = stream.sent)
       => (/\ stream.delays = <<retry_delay, 2 * retry_delay>>
           /\ stream.yielded = [i \in 1..stream.sent |-> i])

C11_Witness ==
    /\ stream.pc = "returned"
    /\ stream.attempt = 2
    /\ stream.connections = 3
    /\ stream.delays = <<1, 2>>
    /\ stream.yielded = <<1, 2>>

\* C12: initialize_keys is idempotent: when initializers run one after the
\* other on overlapping sets of keys, none raises a uniqueness conflict, the
\* table never holds two records of a key, every key given to a call that
\* returned has a record, a record already present is neither removed nor
\* changed, and a record that appears is one of a given key, enabled and
\* with failure count 0.
C12_InitializeIdempotent ==
    /\ [](/\ \A i, j \in 1..Len(rows) : i # j => rows[i] # rows[j]
          /\ \A p \in 1..NSeeders :
                /\ seeders[p].pc = "raised" => seeders[p].error = "StoreError"
                /\ seeders[p].pc = "returned" =>
                      SeqToSet(seeders[p].api_keys) \subseteq SeqToSet(rows))
    /\ [][/\ \A k \in SeqToSet(rows) :
                /\ k \in SeqToSet(rows')
                /\ status'[k] = status[k]
                /\ failure_count'[k] = failure_count[k]
          /\ \A k \in SeqToSet(rows') \ SeqToSet(rows) :
                /\ status'[k]
                /\ failure_count'[k] = 0
                /\ \E p \in 1..NSeeders : k \in SeqToSet(seeders[p].api_keys)
         ]_vars

\* C13: when initializers race, a uniqueness conflict does not make
\* initialize_keys raise, and every key given to a call that returned has a
\* record.
C13_RaceKeepsEveryValue ==
    \A p \in 1..NSeeders :
        /\ seeders[p].pc = "raised" => seeders[p].error = "StoreError"
        /\ seeders[p].pc = "returned" =>
              SeqToSet(seeders[p].api_keys) \subseteq SeqToSet(rows)

\* C14: is_key_valid(key) returns True exactly when key has a record that
\* is enabled and whose failure count is below MAX_FAILURES, returns a false
\* value (False, or None when there is no record) otherwise, and changes no
\* record.
C14_IsValidIffUsable ==
    /\ [](Finished({"is_key_valid"}) =>
            /\ hist.out \in {"true", "false", "None"}
            /\ (hist.out = "true") <=>
                  (/\ hist.key \in SeqToSet(rows)
                   /\ status[hist.key]
                   /\ failure_count[hist.key] < MAX_FAILURES))
    /\ [][(hist.op = "is_key_valid" /\ hist.out = "running")
            => UNCHANGED <<rows, status, failure_count>>]_vars

C14_Witness ==
    /\ hist.op = "is_key_valid"
    /\ hist.out = "false"
    /\ hist.key \in SeqToSet(rows)
    /\ ~status[hist.key]
    /\ failure_count[hist.key] >= MAX_FAILURES
    /\ \E k \in SeqToSet(rows) : status[k]

\* C15: get_keys_by_status partitions the records by their status: every
\* record is in exactly one of the two dicts, valid_keys holds the enabled
\* records and invalid_keys the disabled ones, each with its failure count;
\* called after the failure report that brought a key to MAX_FAILURES while
\* another key was valid, it shows that key in invalid_keys and the other
\* valid keys in valid_keys.
C15_KeysByStatusPartition ==
    Finished({"get_keys_by_status"}) =>
        LET valid == hist.keys.valid_keys
            invalid == hist.keys.invalid_keys
        IN /\ (DOMAIN valid) \cup (DOMAIN invalid) = SeqToSet(rows)
           /\ (DOMAIN valid) \cap (DOMAIN invalid) = {}
           /\ \A k \in DOMAIN valid :
                 status[k] /\ valid[k] = failure_count[k]
           /\ \A k \in DOMAIN invalid :
                 ~status[k] /\ invalid[k] = failure_count[k]
           /\ (/\ hist.prev.op = "handle_api_failure"
               /\ hist.prev.out # "StoreError"
               /\ hist.prev.key \in hist.prev.valid0
               /\ hist.prev.count0 = MAX_FAILURES - 1
               /\ hist.prev.valid0 \ {hist.prev.key} # {})
              => (/\ hist.prev.key \in DOMAIN invalid
                  /\ hist.prev.valid0 \ {hist.prev.key} \subseteq DOMAIN valid)

\* C16: generate_content sends exactly one request: a response whose status
\* is not 200 makes it raise at once an error that carries the status code
\* and the body, a response with status 200 makes it return the body, and in
\* neither case is a second request sent.
C16_SingleShot ==
    /\ generate.requests <= 1
    /\ generate.pc \in {"post", "returned", "raised"} => generate.requests = 1
    /\ generate.pc = "returned" =>
          /\ generate.status_code = 200
          /\ generate.result.out = "returned"
          /\ generate.result.json = ResponseJson(generate.text)
    /\ (generate.pc = "raised" /\ generate.result.error # "RequestError") =>
          /\ generate.status_code # 200
          /\ generate.result.error = "Exception"
          /\ generate.result.status_code = generate.status_code
          /\ generate.result.text = generate.text
    /\ generate.status_code \in StatusCodes =>
          generate.pc = IF generate.status_code = 200 THEN "returned"
                        ELSE "raised"

\* C17: get_next_working_key does not mask a store error: when a store read
\* of its scan (in get_next_key or is_key_valid) raises, the call ends with
\* that error at once and runs no reset.
C17_StoreErrorPropagates ==
    (/\ hist.op \in {"get_next_working_key", "handle_api_failure"}
     /\ hist.scan_errors >= 1)
    => (hist.out = "StoreError" /\ hist.resets = 0)

\* C18: the state machine of a record: its failure count never exceeds
\* MAX_FAILURES, and a step changes it only from enabled with count n to
\* count n + 1 (enabled when n + 1 < MAX_FAILURES, disabled at MAX_FAILURES
\* otherwise) or, by a reset, to enabled with count 0; a failure report
\* against a disabled record changes nothing.
C18_StateMachine ==
    /\ [](\A k \in SeqToSet(rows) : failure_count[k] <= MAX_FAILURES)
    /\ [][\A k \in SeqToSet(rows) :
            \/ status'[k] = status[k] /\ failure_count'[k] = failure_count[k]
            \/ /\ status[k]
               /\ failure_count'[k] = failure_count[k] + 1
               /\ status'[k] <=> (failure_count'[k] < MAX_FAILURES)
               /\ failure_count'[k] <= MAX_FAILURES
            \/ status'[k] /\ failure_count'[k] = 0
         ]_vars

\* The number of calls in progress that are suspended at one of pcs.
TasksAt(pcs) ==
    BagCardinality([tr \in {x \in BagToSet(tasks) : x.pc \in pcs}
                    |-> tasks[tr]])

\* C19: concurrent failure reports are serialized and none is lost: at most
\* one call is between the read of the record and the commit, namely the one
\* that holds failure_count_lock; every report applied raises the count of
\* its record by exactly one, and nothing but a report or a reset changes a
\* count, so two reports on a record with no reset between them leave its
\* count 2 higher.
C19_NoLostUpdate ==
    /\ [](/\ TasksAt({"haf_select", "haf_commit"}) <= 1
          /\ failure_count_lock <=> TasksAt({"haf_select", "haf_commit"}) = 1
          /\ \A k \in SeqToSet(rows) : failure_count[k] = reports[k])
    /\ [][\A k \in SeqToSet(rows) :
            \/ failure_count'[k] = failure_count[k] /\ reports'[k] = reports[k]
            \/ failure_count'[k] = failure_count[k] + 1
                  /\ reports'[k] = reports[k] + 1
            \/ failure_count'[k] = 0 /\ reports'[k] = 0
         ]_vars

C19_Witness ==
    /\ \E k \in SeqToSet(rows) : failure_count[k] = 2 /\ reports[k] = 2
    /\ TasksAt({"haf_commit"}) = 1
    /\ \E tr \in BagToSet(tasks) :
          tr.pc \in {"gnk_lock", "gnk_select", "reset_execute"}
          /\ tr.ret \in {84, 101}

\* C20: concurrent get_next_key calls are serialized by key_cycle_lock and
\* each advances the cursor exactly once: at most one call is inside the
\* lock, and the step in which a call whose query completed leaves the lock
\* moves the cursor from c to (c + 1) mod K, K >= 1 being the number of
\* enabled records.
C20_CursorAdvancesOncePerCall ==
    /\ [](/\ TasksAt({"gnk_select"}) <= 1
          /\ key_cycle_lock <=> TasksAt({"gnk_select"}) = 1)
    /\ [][(/\ key_cycle_lock
           /\ ~key_cycle_lock'
           /\ ~hist'.query_raised
           /\ EnabledKeys # {})
          => current_key_index' =
                (current_key_index + 1) % Cardinality(EnabledKeys)]_vars

\* C21: every write to a record is made by a call that holds one of the two
\* locks: in a step that adds a record or changes a status or a failure
\* count, the call that takes the step is inside key_cycle_lock (suspended at
\* the query of get_next_key) or inside failure_count_lock (suspended at the
\* query or the commit of handle_api_failure); so no reset runs between the
\* read and the commit of a failure report.
C21_WritesUnderLock ==
    [][(rows' # rows \/ status' # status \/ failure_count' # failure_count)
       => \E tr \in BagToSet(tasks) :
             /\ CopiesIn(tr, tasks') < CopiesIn(tr, tasks)
             /\ tr.pc \in {"gnk_select", "haf_select", "haf_commit"}]_vars

\* C22: a validity check or a failure report for a key that has no record
\* leaves the table as it is: is_key_valid returns a false value, and
\* handle_api_failure, called while some record is valid and meeting no
\* store error, adds, changes and disables nothing and returns a valid key.
C22_NotFoundIsNoOp ==
    /\ []((Finished({"is_key_valid", "handle_api_failure"})
             /\ hist.scan_errors = 0
             /\ hist.key \notin SeqToSet(rows))
          => IF hist.op = "is_key_valid"
             THEN hist.out \in {"false", "None"}
             ELSE hist.valid0 # {} =>
                     (hist.out = "value" /\ hist.val \in hist.valid0))
    /\ [][(/\ hist.op \in {"is_key_valid", "handle_api_failure"}
           /\ hist.out = "running"
           /\ hist.scan_errors = 0
           /\ hist.key \notin SeqToSet(rows)
           /\ hist.valid0 # {})
          => UNCHANGED <<rows, status, failure_count>>]_vars

\* C24: no call holds both locks: key_cycle_lock is held exactly while one
\* call is at the query of get_next_key and failure_count_lock exactly while
\* one call is at the query or the commit of handle_api_failure, so a call
\* waiting for one lock holds none; no state is a deadlock (while calls are
\* in progress one of them can take a step), and a failure report waiting
\* for the free failure_count_lock can take it whoever holds key_cycle_lock.
C24_LocksNeverNested ==
    /\ key_cycle_lock <=> TasksAt({"gnk_select"}) = 1
    /\ TasksAt({"gnk_select"}) <= 1
    /\ failure_count_lock <=> TasksAt({"haf_select", "haf_commit"}) = 1
    /\ TasksAt({"haf_select", "haf_commit"}) <= 1
    /\ tasks # EmptyBag => ENABLED NextRunning
    /\ (TasksAt({"haf_lock"}) >= 1 /\ ~failure_count_lock)
          => ENABLED Running_handle_api_failure_lock

C24_Witness ==
    /\ key_cycle_lock
    /\ failure_count_lock
    /\ TasksAt({"gnk_select"}) = 1
    /\ TasksAt({"haf_commit"}) = 1

\* C25: get_key_manager_instance constructs at most one KeyManager, hands
\* every caller that one instance, and hands it out only when its
\* initialize_keys run has completed without error.
C25_SingletonSeeded ==
    /\ singleton.constructed <= 1
    /\ \A c \in 1..NCallers :
          singleton.callers[c].pc = "returned" =>
              /\ singleton.callers[c].got = singleton.instance
              /\ singleton.callers[c].got # NoInstance
              /\ singleton.seeded

====
